---------------------------- MODULE Spec2Model ----------------------------
(***************************************************************************)
(* Model of the SciFin generators:                                         *)
(*   timeseries/randomseries.py : AutoRegressive, RandomWalk,              *)
(*                                DriftRandomWalk, MovingAverage, ARMA     *)
(*   marketdata/simuldata.py    : create_market, set_market_names,         *)
(*                                create_market_shares                     *)
(*                                                                         *)
(* One call of one function is one behaviour: Init holds the function and  *)
(* its arguments, the actions are the statements of its body in program    *)
(* order (pc is the position in the body), and the behaviour ends in       *)
(* pc = "done" (the function returned) or pc = "raised" (an exception left *)
(* the function; err names it).                                            *)
(*                                                                         *)
(* Numbers are integers: the arguments and the random draws range over     *)
(* small sets of integer-valued floats, on which float arithmetic is exact.*)
(* Python lists and numpy arrays are functions on 0..n-1, so indices are   *)
(* the source's.                                                           *)
(***************************************************************************)
EXTENDS Integers, FiniteSets, Sequences, TLC

VARIABLES
    fn,            \* the function being called
    pc,            \* position in its body
    args,          \* its arguments, a record with the source's parameter names
    bound,         \* names of the locals assigned so far
    err,           \* the exception that left the function, "none" if none
    data_index,    \* randomseries.py: data_index
    a,             \* randomseries.py: a, the white noise
    x,             \* randomseries.py: x
    t,             \* randomseries.py: loop index t
    printed,       \* what print() wrote (theoretical moments)
    rs,            \* randomseries.py: rs, the returned series
    rets_plus_1,   \* simuldata.py: rets_plus_1
    ret_val,       \* simuldata.py: ret_val
    data,          \* simuldata.py: data / market (columns, index, shape)
    date,          \* simuldata.py: date after the try block
    date_series,   \* simuldata.py: date_series
    draws,         \* simuldata.py: the np.random.normal samples of create_market_shares
    market_shares  \* simuldata.py: market_shares

vars == <<fn, pc, args, bound, err, data_index, a, x, t, printed, rs,
          rets_plus_1, ret_val, data, date, date_series, draws, market_shares>>

seriesVars == <<data_index, a, x, t, printed, rs>>
marketVars == <<rets_plus_1, ret_val, data, date, date_series, draws, market_shares>>

-----------------------------------------------------------------------------
(* Bounds of the model *)

MaxOrder == 2      \* orders P, Q and list lengths range over 0..MaxOrder
MaxT == 3          \* the time axis has 0..MaxT points
MaxStepsPerYear == 2   \* create_market: steps_per_year ranges over 0..MaxStepsPerYear
MaxScenarios == 2      \* create_market: n_scenarios ranges over 0..MaxScenarios
MaxTicks == 3      \* set_market_names: the panel has 0..MaxTicks rows
MaxAssets == 2     \* the panel has 1..MaxAssets columns

(* Values the arguments and draws range over *)
CoefVals == {-1, 1, 2}
ARMA_CoefVals == {-1, 2}
StartVals == {1, 3}
CstVals == {0, 1}
SigmaVals == {0, 1}
\* start_date is day 1; end_date gives a time axis of 0..MaxT daily points
StartDays == {1}
EndDays == 0 .. MaxT

-----------------------------------------------------------------------------
(* Python built-ins *)

\* a list: a function on 0..n-1
Lists(V, n) == [0 .. n - 1 -> V]
ListsUpTo(V, n) == UNION {Lists(V, k) : k \in 0 .. n}
Empty == [i \in {} |-> 0]

len(l) == Cardinality(DOMAIN l)

RECURSIVE sumTo(_, _)
sumTo(l, n) == IF n = 0 THEN 0 ELSE sumTo(l, n - 1) + l[n - 1]
sum(l) == sumTo(l, len(l))

\* [0.] * T
zeros(T) == [i \in 0 .. T - 1 |-> 0]

\* pd.date_range(start, end, freq='D'): the days start..end, none if end < start
date_range(start, end) == [i \in 0 .. (end - start) |-> start + i]

\* the support of np.random.normal(loc=0., scale=sigma, size=T):
\* scale 0 gives the array of zeros
NoiseVals(sigma) == IF sigma = 0 THEN {0} ELSE {-1, 0, 1}
normal(sigma, T) == Lists(NoiseVals(sigma), T)

-----------------------------------------------------------------------------
(* Steps shared by the five generators of randomseries.py *)

Raise(e) ==
    /\ pc' = "raised"
    /\ err' = e

\* data_index = pd.date_range(...); T = len(data_index)
GenIndex(f) ==
    /\ fn = f
    /\ pc = "index"
    /\ data_index' = date_range(args.start_date, args.end_date)
    /\ bound' = bound \cup {"data_index", "T"}
    /\ pc' = "noise"
    /\ UNCHANGED <<fn, args, err, a, x, t, printed, rs, marketVars>>

\* a = np.random.normal(loc=0., scale=sigma, size=T)
GenNoise(f) ==
    /\ fn = f
    /\ pc = "noise"
    /\ a' \in normal(args.sigma, len(data_index))
    /\ bound' = bound \cup {"a"}
    /\ pc' = "alloc"
    /\ UNCHANGED <<fn, args, err, data_index, x, t, printed, rs, marketVars>>

\* x = [0.] * T
GenAlloc(f, next) ==
    /\ fn = f
    /\ pc = "alloc"
    /\ x' = zeros(len(data_index))
    /\ bound' = bound \cup {"x"}
    /\ pc' = next
    /\ UNCHANGED <<fn, args, err, data_index, a, t, printed, rs, marketVars>>

\* df = pd.DataFrame(index=data_index, data=x); rs = ts.timeseries(df); return rs
\* (the series is kept as the axis and the values it is built from)
GenReturn(f) ==
    /\ fn = f
    /\ pc = "assemble"
    /\ rs' = [index |-> data_index, values |-> x]
    /\ bound' = bound \cup {"df", "rs"}
    /\ pc' = "done"
    /\ UNCHANGED <<fn, args, err, data_index, a, x, t, printed, marketVars>>

-----------------------------------------------------------------------------
(* AutoRegressive *)

AR_Args ==
    [start_date : StartDays, end_date : EndDays, frequency : {"D"},
     start_values : ListsUpTo(StartVals, MaxOrder), cst : CstVals,
     order : 0 .. MaxOrder, coeffs : ListsUpTo(CoefVals, MaxOrder),
     sigma : SigmaVals]

\* assert(len(coeffs)==order); assert(len(start_values)==order)
AR_asserts(coeffs, start_values, order) ==
    /\ len(coeffs) = order
    /\ len(start_values) = order

\* the two asserts, then P = len(start_values)
AR_Validate ==
    /\ fn = "AutoRegressive"
    /\ pc = "validate"
    /\ IF AR_asserts(args.coeffs, args.start_values, args.order)
       THEN /\ pc' = "index"
            /\ bound' = bound \cup {"P"}
            /\ err' = err
       ELSE /\ Raise("AssertionError")
            /\ bound' = bound
    /\ UNCHANGED <<fn, args, seriesVars, marketVars>>

AR_Index == GenIndex("AutoRegressive")
AR_Noise == GenNoise("AutoRegressive")
AR_Alloc == GenAlloc("AutoRegressive", "seed")

\* for t_ini in range(P): x[t_ini] = start_values[t_ini]
\* (x[t_ini] with t_ini >= T is an IndexError)
AR_Seed ==
    /\ fn = "AutoRegressive"
    /\ pc = "seed"
    /\ LET P == len(args.start_values)
           T == len(data_index)
       IN  /\ x' = [i \in 0 .. T - 1 |-> IF i < P THEN args.start_values[i] ELSE x[i]]
           /\ IF P <= T
              THEN pc' = "loop" /\ t' = P /\ err' = err
              ELSE Raise("IndexError") /\ t' = t
    /\ UNCHANGED <<fn, args, bound, data_index, a, printed, rs, marketVars>>

\* for p in range(P): x[t] += coeffs[p] * x[t-p-1]
RECURSIVE AR_inner(_, _, _, _, _)
AR_inner(xs, coeffs, P, tt, p) ==
    IF p >= P THEN xs
    ELSE AR_inner([xs EXCEPT ![tt] = xs[tt] + coeffs[p] * xs[tt - p - 1]],
                  coeffs, P, tt, p + 1)

\* AR_body reading the noise from its first entry on (a[t-P] for a[t])
AR_body_noiseFromZero(xs, noise, cst, coeffs, P, tt) ==
    AR_inner([xs EXCEPT ![tt] = cst + noise[tt - P]], coeffs, P, tt, 0)

\* the body of "for t in range(P,T,1)": x[t] = cst + a[t], then the inner loop
AR_body(xs, noise, cst, coeffs, P, tt) ==
    AR_inner([xs EXCEPT ![tt] = cst + noise[tt]], coeffs, P, tt, 0)

AR_Loop ==
    /\ fn = "AutoRegressive"
    /\ pc = "loop"
    /\ IF t < len(data_index)
       THEN /\ x' = AR_body(x, a, args.cst, args.coeffs, len(args.start_values), t)
            /\ t' = t + 1
            /\ pc' = pc
       ELSE /\ pc' = "moment"
            /\ UNCHANGED <<x, t>>
    /\ UNCHANGED <<fn, args, bound, err, data_index, a, printed, rs, marketVars>>

\* E = cst / (1 - sum(coeffs)); print(...)
\* Python's / on a zero divisor raises ZeroDivisionError. E is kept as the
\* pair <<numerator, denominator>>.
AR_Moment ==
    /\ fn = "AutoRegressive"
    /\ pc = "moment"
    /\ LET den == 1 - sum(args.coeffs)
       IN  IF den = 0
           THEN /\ Raise("ZeroDivisionError")
                /\ UNCHANGED <<printed, bound>>
           ELSE /\ printed' = [P |-> len(args.start_values), E |-> <<args.cst, den>>]
                /\ bound' = bound \cup {"E"}
                /\ pc' = "assemble"
                /\ err' = err
    /\ UNCHANGED <<fn, args, data_index, a, x, t, rs, marketVars>>

AR_Return == GenReturn("AutoRegressive")

AR_Next ==
    \/ AR_Validate
    \/ AR_Index
    \/ AR_Noise
    \/ AR_Alloc
    \/ AR_Seed
    \/ AR_Loop
    \/ AR_Moment
    \/ AR_Return

-----------------------------------------------------------------------------
(* RandomWalk *)

RW_Args ==
    [start_date : StartDays, end_date : EndDays, frequency : {"D"},
     start_value : StartVals, sigma : SigmaVals]

RW_Index == GenIndex("RandomWalk")
RW_Noise == GenNoise("RandomWalk")
RW_Alloc == GenAlloc("RandomWalk", "seed")

\* x[0] = start_value   (an IndexError on the empty list)
RW_Seed ==
    /\ fn = "RandomWalk"
    /\ pc = "seed"
    /\ IF len(data_index) > 0
       THEN /\ x' = [x EXCEPT ![0] = args.start_value]
            /\ t' = 1
            /\ pc' = "loop"
            /\ err' = err
       ELSE /\ Raise("IndexError")
            /\ UNCHANGED <<x, t>>
    /\ UNCHANGED <<fn, args, bound, data_index, a, printed, rs, marketVars>>

\* x[t] = x[t-1] + a[t]
RW_body(xs, noise, tt) == [xs EXCEPT ![tt] = xs[tt - 1] + noise[tt]]

RW_Loop ==
    /\ fn = "RandomWalk"
    /\ pc = "loop"
    /\ IF t < len(data_index)
       THEN /\ x' = RW_body(x, a, t)
            /\ t' = t + 1
            /\ pc' = pc
       ELSE /\ pc' = "assemble"
            /\ UNCHANGED <<x, t>>
    /\ UNCHANGED <<fn, args, bound, err, data_index, a, printed, rs, marketVars>>

RW_Return == GenReturn("RandomWalk")

RW_Next ==
    \/ RW_Index
    \/ RW_Noise
    \/ RW_Alloc
    \/ RW_Seed
    \/ RW_Loop
    \/ RW_Return

-----------------------------------------------------------------------------
(* DriftRandomWalk *)

DRW_Args ==
    [start_date : StartDays, end_date : EndDays, frequency : {"D"},
     start_value : StartVals, drift : CoefVals, sigma : SigmaVals]

DRW_Index == GenIndex("DriftRandomWalk")
DRW_Noise == GenNoise("DriftRandomWalk")
DRW_Alloc == GenAlloc("DriftRandomWalk", "seed")

\* x[0] = start_value   (an IndexError on the empty list)
DRW_Seed ==
    /\ fn = "DriftRandomWalk"
    /\ pc = "seed"
    /\ IF len(data_index) > 0
       THEN /\ x' = [x EXCEPT ![0] = args.start_value]
            /\ t' = 1
            /\ pc' = "loop"
            /\ err' = err
       ELSE /\ Raise("IndexError")
            /\ UNCHANGED <<x, t>>
    /\ UNCHANGED <<fn, args, bound, data_index, a, printed, rs, marketVars>>

\* DRW_body reading the noise of the previous index
DRW_body_prevNoise(xs, noise, drift, tt) ==
    [xs EXCEPT ![tt] = drift + xs[tt - 1] + noise[tt - 1]]

\* x[t] = drift + x[t-1] + a[t]
DRW_body(xs, noise, drift, tt) == [xs EXCEPT ![tt] = drift + xs[tt - 1] + noise[tt]]

DRW_Loop ==
    /\ fn = "DriftRandomWalk"
    /\ pc = "loop"
    /\ IF t < len(data_index)
       THEN /\ x' = DRW_body(x, a, args.drift, t)
            /\ t' = t + 1
            /\ pc' = pc
       ELSE /\ pc' = "assemble"
            /\ UNCHANGED <<x, t>>
    /\ UNCHANGED <<fn, args, bound, err, data_index, a, printed, rs, marketVars>>

DRW_Return == GenReturn("DriftRandomWalk")

DRW_Next ==
    \/ DRW_Index
    \/ DRW_Noise
    \/ DRW_Alloc
    \/ DRW_Seed
    \/ DRW_Loop
    \/ DRW_Return

-----------------------------------------------------------------------------
(* MovingAverage *)

MA_Args ==
    [start_date : StartDays, end_date : EndDays, frequency : {"D"},
     cst : CstVals, order : 0 .. MaxOrder, coeffs : ListsUpTo(CoefVals, MaxOrder),
     sigma : SigmaVals]

\* assert(len(coeffs)==order)
MA_asserts(coeffs, order) == len(coeffs) = order

\* the assert, then Q = order
MA_Validate ==
    /\ fn = "MovingAverage"
    /\ pc = "validate"
    /\ IF MA_asserts(args.coeffs, args.order)
       THEN /\ pc' = "index"
            /\ bound' = bound \cup {"Q"}
            /\ err' = err
       ELSE /\ Raise("AssertionError")
            /\ bound' = bound
    /\ UNCHANGED <<fn, args, seriesVars, marketVars>>

MA_Index == GenIndex("MovingAverage")
MA_Noise == GenNoise("MovingAverage")
MA_Alloc == GenAlloc("MovingAverage", "loop")

\* MA_inner without the guard t-q-1 >= 0: a negative index of a Python
\* sequence counts from the end, so a[t-q-1] reads a later noise entry
RECURSIVE MA_inner_noGuard(_, _, _, _, _, _)
MA_inner_noGuard(xs, noise, coeffs, Q, tt, q) ==
    IF q >= Q THEN xs
    ELSE MA_inner_noGuard(
             [xs EXCEPT ![tt] = xs[tt] - coeffs[q] * noise[(tt - q - 1) % len(noise)]],
             noise, coeffs, Q, tt, q + 1)

\* for q in range(Q): if t-q-1 >= 0: x[t] -= coeffs[q] * a[t-q-1]
RECURSIVE MA_inner(_, _, _, _, _, _)
MA_inner(xs, noise, coeffs, Q, tt, q) ==
    IF q >= Q THEN xs
    ELSE MA_inner(IF tt - q - 1 >= 0
                  THEN [xs EXCEPT ![tt] = xs[tt] - coeffs[q] * noise[tt - q - 1]]
                  ELSE xs,
                  noise, coeffs, Q, tt, q + 1)

\* the body of "for t in range(T)": x[t] = cst + a[t], then the inner loop
MA_body(xs, noise, cst, coeffs, Q, tt) ==
    MA_inner([xs EXCEPT ![tt] = cst + noise[tt]], noise, coeffs, Q, tt, 0)

MA_Loop ==
    /\ fn = "MovingAverage"
    /\ pc = "loop"
    /\ IF t < len(data_index)
       THEN /\ x' = MA_body(x, a, args.cst, args.coeffs, args.order, t)
            /\ t' = t + 1
            /\ pc' = pc
       ELSE /\ pc' = "moment"
            /\ UNCHANGED <<x, t>>
    /\ UNCHANGED <<fn, args, bound, err, data_index, a, printed, rs, marketVars>>

\* V = 1.; for q in range(Q): V += coeffs[q]**2; V *= sigma**2
RECURSIVE MA_V(_, _, _)
MA_V(coeffs, Q, sigma) ==
    IF Q = 0 THEN sigma * sigma
    ELSE MA_V(coeffs, Q - 1, sigma) + coeffs[Q - 1] * coeffs[Q - 1] * sigma * sigma

\* the two print() calls; np.sqrt(V) of the second has V >= 0 and is not modelled
MA_Moment ==
    /\ fn = "MovingAverage"
    /\ pc = "moment"
    /\ printed' = [Q |-> args.order, mean |-> args.cst,
                   V |-> MA_V(args.coeffs, args.order, args.sigma)]
    /\ bound' = bound \cup {"V"}
    /\ pc' = "assemble"
    /\ UNCHANGED <<fn, args, err, data_index, a, x, t, rs, marketVars>>

MA_Return == GenReturn("MovingAverage")

MA_Next ==
    \/ MA_Validate
    \/ MA_Index
    \/ MA_Noise
    \/ MA_Alloc
    \/ MA_Loop
    \/ MA_Moment
    \/ MA_Return

-----------------------------------------------------------------------------
(* ARMA *)

ARMA_Args ==
    [start_date : StartDays, end_date : EndDays, frequency : {"D"},
     start_values : ListsUpTo(StartVals, MaxOrder), cst : CstVals,
     ARorder : 0 .. MaxOrder, ARcoeffs : ListsUpTo(ARMA_CoefVals, MaxOrder),
     MAorder : 0 .. MaxOrder, MAcoeffs : ListsUpTo(ARMA_CoefVals, MaxOrder),
     sigma : SigmaVals]

\* ARMA_asserts without the assert on MAcoeffs
ARMA_asserts_noMA(ARcoeffs, MAcoeffs, start_values, ARorder, MAorder) ==
    /\ len(ARcoeffs) = ARorder
    /\ len(start_values) = ARorder

\* assert(len(ARcoeffs)==ARorder); assert(len(MAcoeffs)==MAorder);
\* assert(len(start_values)==ARorder)
ARMA_asserts(ARcoeffs, MAcoeffs, start_values, ARorder, MAorder) ==
    /\ len(ARcoeffs) = ARorder
    /\ len(MAcoeffs) = MAorder
    /\ len(start_values) = ARorder

\* the three asserts, then P = ARorder; Q = MAorder
ARMA_Validate ==
    /\ fn = "ARMA"
    /\ pc = "validate"
    /\ IF ARMA_asserts(args.ARcoeffs, args.MAcoeffs, args.start_values,
                       args.ARorder, args.MAorder)
       THEN /\ pc' = "index"
            /\ bound' = bound \cup {"P", "Q"}
            /\ err' = err
       ELSE /\ Raise("AssertionError")
            /\ bound' = bound
    /\ UNCHANGED <<fn, args, seriesVars, marketVars>>

ARMA_Index == GenIndex("ARMA")
ARMA_Noise == GenNoise("ARMA")
ARMA_Alloc == GenAlloc("ARMA", "seed")

\* for t_ini in range(P): x[t_ini] = start_values[t_ini]
\* (x[t_ini] with t_ini >= T is an IndexError)
ARMA_Seed ==
    /\ fn = "ARMA"
    /\ pc = "seed"
    /\ LET P == args.ARorder
           T == len(data_index)
       IN  /\ x' = [i \in 0 .. T - 1 |-> IF i < P THEN args.start_values[i] ELSE x[i]]
           /\ IF P <= T
              THEN pc' = "loop" /\ t' = P /\ err' = err
              ELSE Raise("IndexError") /\ t' = t
    /\ UNCHANGED <<fn, args, bound, data_index, a, printed, rs, marketVars>>

\* ARMA_ARinner with the lag of AutoRegressive, x[t-p-1]
RECURSIVE ARMA_ARinner_lagged(_, _, _, _, _)
ARMA_ARinner_lagged(xs, ARcoeffs, P, tt, p) ==
    IF p >= P THEN xs
    ELSE ARMA_ARinner_lagged([xs EXCEPT ![tt] = xs[tt] + ARcoeffs[p] * xs[tt - p - 1]],
                             ARcoeffs, P, tt, p + 1)

\* for p in range(P): x[t] += ARcoeffs[p] * x[t-p]
RECURSIVE ARMA_ARinner(_, _, _, _, _)
ARMA_ARinner(xs, ARcoeffs, P, tt, p) ==
    IF p >= P THEN xs
    ELSE ARMA_ARinner([xs EXCEPT ![tt] = xs[tt] + ARcoeffs[p] * xs[tt - p]],
                      ARcoeffs, P, tt, p + 1)

\* for q in range(Q): if t-q-1 >= 0: x[t] -= MAcoeffs[q] * x[t-q-1]
RECURSIVE ARMA_MAinner(_, _, _, _, _)
ARMA_MAinner(xs, MAcoeffs, Q, tt, q) ==
    IF q >= Q THEN xs
    ELSE ARMA_MAinner(IF tt - q - 1 >= 0
                      THEN [xs EXCEPT ![tt] = xs[tt] - MAcoeffs[q] * xs[tt - q - 1]]
                      ELSE xs,
                      MAcoeffs, Q, tt, q + 1)

\* the body of "for t in range(P,T,1)": x[t] = cst + a[t], then the two inner loops
ARMA_body(xs, noise, cst, ARcoeffs, MAcoeffs, P, Q, tt) ==
    ARMA_MAinner(ARMA_ARinner([xs EXCEPT ![tt] = cst + noise[tt]], ARcoeffs, P, tt, 0),
                 MAcoeffs, Q, tt, 0)

ARMA_Loop ==
    /\ fn = "ARMA"
    /\ pc = "loop"
    /\ IF t < len(data_index)
       THEN /\ x' = ARMA_body(x, a, args.cst, args.ARcoeffs, args.MAcoeffs,
                              args.ARorder, args.MAorder, t)
            /\ t' = t + 1
            /\ pc' = pc
       ELSE /\ pc' = "assemble"
            /\ UNCHANGED <<x, t>>
    /\ UNCHANGED <<fn, args, bound, err, data_index, a, printed, rs, marketVars>>

ARMA_Return == GenReturn("ARMA")

ARMA_Next ==
    \/ ARMA_Validate
    \/ ARMA_Index
    \/ ARMA_Noise
    \/ ARMA_Alloc
    \/ ARMA_Seed
    \/ ARMA_Loop
    \/ ARMA_Return

-----------------------------------------------------------------------------
(* create_market *)

\* n_years * steps_per_year + 1 rows; the draws of a row are integer multiples
\* of the unit return. drift only moves the mean of the draws and is 0 here,
\* so that sigma = 0 makes every draw (1+drift)**dt = 1.
YearVals == {0, 1}
RetVals == {1, 2}
RIniVals == {1, 3}

CM_Args ==
    [r_ini : RIniVals, drift : {0}, sigma : SigmaVals, n_years : YearVals,
     steps_per_year : 0 .. MaxStepsPerYear, n_scenarios : 0 .. MaxScenarios]

\* an n x m numpy array / DataFrame: rows 0..n-1 of columns 0..m-1
Matrices(V, n, m) == [0 .. n - 1 -> [0 .. m - 1 -> V]]

\* n_steps = int(n_years * steps_per_year) + 1
CM_n_steps(n_years, steps_per_year) == n_years * steps_per_year + 1

\* dt = 1/steps_per_year (ZeroDivisionError on 0), then
\* rets_plus_1 = np.random.normal(loc, scale, size=(n_steps, n_scenarios))
CM_Draw ==
    /\ fn = "create_market"
    /\ pc = "draw"
    /\ IF args.steps_per_year = 0
       THEN /\ Raise("ZeroDivisionError")
            /\ UNCHANGED <<rets_plus_1, bound>>
       ELSE /\ rets_plus_1' \in
                  Matrices(IF args.sigma = 0 THEN {1} ELSE RetVals,
                           CM_n_steps(args.n_years, args.steps_per_year),
                           args.n_scenarios)
            /\ bound' = bound \cup {"dt", "n_steps", "rets_plus_1"}
            /\ pc' = "anchor"
            /\ err' = err
    /\ UNCHANGED <<fn, args, seriesVars, ret_val, data, date, date_series, draws,
                   market_shares>>

\* rets_plus_1[0] = 1
CM_anchor(m) == [m EXCEPT ![0] = [j \in DOMAIN m[0] |-> 1]]

CM_Anchor ==
    /\ fn = "create_market"
    /\ pc = "anchor"
    /\ rets_plus_1' = CM_anchor(rets_plus_1)
    /\ pc' = "cumprod"
    /\ UNCHANGED <<fn, args, bound, err, seriesVars, ret_val, data, date, date_series,
                   draws, market_shares>>

\* DataFrame.cumprod(): down the rows (axis 0), column by column
RECURSIVE cumprodTo(_, _)
cumprodTo(m, i) ==
    IF i = 0 THEN m[0]
    ELSE LET prev == cumprodTo(m, i - 1)
         IN  [j \in DOMAIN m[i] |-> prev[j] * m[i][j]]

\* cumprod(axis=1): along each row, across the columns
RECURSIVE cumprodRowTo(_, _)
cumprodRowTo(row, j) == IF j = 0 THEN row[0] ELSE cumprodRowTo(row, j - 1) * row[j]

cumprod_acrossColumns(m) ==
    [i \in DOMAIN m |-> [j \in DOMAIN m[i] |-> cumprodRowTo(m[i], j)]]

cumprod(m) == [i \in DOMAIN m |-> cumprodTo(m, i)]

\* r_ini * DataFrame
scale(r, m) == [i \in DOMAIN m |-> [j \in DOMAIN m[i] |-> r * m[i][j]]]

\* ret_val = r_ini * pd.DataFrame(rets_plus_1).cumprod(); return ret_val
CM_Return ==
    /\ fn = "create_market"
    /\ pc = "cumprod"
    /\ ret_val' = scale(args.r_ini, cumprod(rets_plus_1))
    /\ bound' = bound \cup {"ret_val"}
    /\ pc' = "done"
    /\ UNCHANGED <<fn, args, err, seriesVars, rets_plus_1, data, date, date_series,
                   draws, market_shares>>

CM_Next ==
    \/ CM_Draw
    \/ CM_Anchor
    \/ CM_Return

-----------------------------------------------------------------------------
(* The calendar of datetime and pandas, as set_market_names uses it *)

CalendarYears == 2000 .. 2040

IsLeap(y) == (y % 4 = 0) /\ ((y % 100 # 0) \/ (y % 400 = 0))

DaysInMonth(y, m) ==
    IF m = 2 THEN (IF IsLeap(y) THEN 29 ELSE 28)
    ELSE IF m \in {4, 6, 9, 11} THEN 30 ELSE 31

\* days before January 1st of year y (proleptic Gregorian, as date.toordinal)
DaysBeforeYear(y) ==
    (y - 1) * 365 + ((y - 1) \div 4) - ((y - 1) \div 100) + ((y - 1) \div 400)

RECURSIVE DaysBeforeMonth(_, _)
DaysBeforeMonth(y, m) ==
    IF m = 1 THEN 0 ELSE DaysBeforeMonth(y, m - 1) + DaysInMonth(y, m - 1)

toordinal(d) == DaysBeforeYear(d.y) + DaysBeforeMonth(d.y, d.m) + d.d

fromordinal(n) ==
    LET yy == CHOOSE c \in CalendarYears :
                  DaysBeforeYear(c) < n /\ n <= DaysBeforeYear(c + 1)
        r  == n - DaysBeforeYear(yy)
        mm == CHOOSE c \in 1 .. 12 :
                  DaysBeforeMonth(yy, c) < r /\ r <= DaysBeforeMonth(yy, c) + DaysInMonth(yy, c)
    IN  [y |-> yy, m |-> mm, d |-> r - DaysBeforeMonth(yy, mm)]

\* datetime.strptime(date, "%Y-%m-%d") succeeds on a real calendar day only
strptime_ok(d) == d.m \in 1 .. 12 /\ d.d \in 1 .. DaysInMonth(d.y, d.m)

\* DatetimeIndex.to_period(freq) of one day: the day, month or year holding it,
\* numbered so that consecutive periods are consecutive integers
to_period(n, freq) ==
    IF freq = "D" THEN n
    ELSE IF freq = "M" THEN fromordinal(n).y * 12 + (fromordinal(n).m - 1)
    ELSE fromordinal(n).y

-----------------------------------------------------------------------------
(* set_market_names *)

\* the date strings passed: three calendar days and one that strptime rejects
DateStrings ==
    { [y |-> 2020, m |-> 1, d |-> 1],
      [y |-> 2021, m |-> 3, d |-> 31],
      [y |-> 2019, m |-> 12, d |-> 15],
      [y |-> 2020, m |-> 13, d |-> 1] }

DateTypes == {"start", "end", "middle"}
IntervalTypes == {"D", "M", "Y", "W"}

\* a DataFrame as far as these functions read it: shape, column and row labels
Frames ==
    { [Nticks |-> n, Nassets |-> m,
       columns |-> [j \in 0 .. m - 1 |-> j],
       index |-> [i \in 0 .. n - 1 |-> i]] : n \in 0 .. MaxTicks, m \in 1 .. MaxAssets }

SMN_Args ==
    [date : DateStrings, date_type : DateTypes, interval_type : IntervalTypes]

\* Nticks = data.shape[0]; Nassets = data.shape[1]
\* data.columns = map(lambda x: "Asset " + str(x), range(Nassets))
\* (the label "Asset j" is kept as <<"Asset", j>>)
SMN_Columns ==
    /\ fn = "set_market_names"
    /\ pc = "columns"
    /\ data' = [data EXCEPT !.columns = [j \in 0 .. data.Nassets - 1 |-> <<"Asset", j>>]]
    /\ bound' = bound \cup {"Nticks", "Nassets"}
    /\ pc' = "parse"
    /\ UNCHANGED <<fn, args, err, seriesVars, rets_plus_1, ret_val, date, date_series,
                   draws, market_shares>>

\* try: date = datetime.strptime(date, "%Y-%m-%d")
\* except: ValueError("...")      -- built and dropped: date stays the string
SMN_Parse ==
    /\ fn = "set_market_names"
    /\ pc = "parse"
    /\ date' = IF strptime_ok(args.date)
               THEN [parsed |-> TRUE, ord |-> toordinal(args.date)]
               ELSE date
    /\ pc' = "dates"
    /\ UNCHANGED <<fn, args, bound, err, seriesVars, rets_plus_1, ret_val, data,
                   date_series, draws, market_shares>>

\* date + pd.to_timedelta(np.arange(Nticks) * step, unit='D')
SMN_start(d, Nticks, interval_type) ==
    LET step == IF interval_type = "D" THEN 1
                ELSE IF interval_type = "M" THEN 12 ELSE 365
    IN  [k \in 0 .. Nticks - 1 |-> d + k * step]

\* date - timedelta(days=back) + pd.to_timedelta(np.arange(Nticks) * step, unit='D')
\* with back = Nticks, int(Nticks * (365./12.)), int(Nticks * 365)
\* and step = 1, int(365./12.) = 30, 365
SMN_end(d, Nticks, interval_type) ==
    LET back == IF interval_type = "D" THEN Nticks
                ELSE IF interval_type = "M" THEN (Nticks * 365) \div 12
                ELSE Nticks * 365
        step == IF interval_type = "D" THEN 1
                ELSE IF interval_type = "M" THEN 30 ELSE 365
    IN  [k \in 0 .. Nticks - 1 |-> d - back + k * step]

\* the if / elif / else over date_type and interval_type. The else branch builds
\* a ValueError and drops it; an interval_type outside D, M, Y matches no branch.
\* Adding a timedelta to the unparsed string is a TypeError.
SMN_Dates ==
    /\ fn = "set_market_names"
    /\ pc = "dates"
    /\ IF args.date_type \in {"start", "end"} /\ args.interval_type \in {"D", "M", "Y"}
       THEN IF date.parsed
            THEN /\ date_series' =
                        IF args.date_type = "start"
                        THEN SMN_start(date.ord, data.Nticks, args.interval_type)
                        ELSE SMN_end(date.ord, data.Nticks, args.interval_type)
                 /\ bound' = bound \cup {"date_series"}
                 /\ pc' = "assign"
                 /\ err' = err
            ELSE /\ Raise("TypeError")
                 /\ UNCHANGED <<date_series, bound>>
       ELSE /\ pc' = "assign"
            /\ UNCHANGED <<date_series, bound, err>>
    /\ UNCHANGED <<fn, args, seriesVars, rets_plus_1, ret_val, data, date, draws,
                   market_shares>>

\* data.index = date_series.to_period(interval_type); return
\* (reading date_series when no branch assigned it is an UnboundLocalError)
SMN_Assign ==
    /\ fn = "set_market_names"
    /\ pc = "assign"
    /\ IF "date_series" \in bound
       THEN /\ data' = [data EXCEPT !.index =
                           [k \in DOMAIN date_series |->
                               to_period(date_series[k], args.interval_type)]]
            /\ pc' = "done"
            /\ err' = err
       ELSE /\ Raise("UnboundLocalError")
            /\ data' = data
    /\ UNCHANGED <<fn, args, bound, seriesVars, rets_plus_1, ret_val, date, date_series,
                   draws, market_shares>>

SMN_Next ==
    \/ SMN_Columns
    \/ SMN_Parse
    \/ SMN_Dates
    \/ SMN_Assign

-----------------------------------------------------------------------------
(* create_market_shares *)

\* A sample of Normal(mean, stdv) is kept in halves: the draw d stands for d/2.
\* stdv = 0 gives the mean itself.
HalfVals == {-3, -1, 1, 3}
MeanVals == {1, 2}
DrawVals(mean, stdv) == IF stdv = 0 THEN {2 * mean} ELSE HalfVals

CMS_Args == [mean : MeanVals, stdv : SigmaVals]

\* int(.) of a float: truncation toward zero
int(d) == IF d >= 0 THEN d \div 2 ELSE -((-d) \div 2)

\* Nassets = market.shape[1]
\* market_shares = pd.Series([int(np.random.normal(loc=mean, scale=stdv, size=1))
\*                            for _ in range(Nassets)])
CMS_Draw ==
    /\ fn = "create_market_shares"
    /\ pc = "draw"
    /\ draws' \in Lists(DrawVals(args.mean, args.stdv), data.Nassets)
    /\ market_shares' = [index |-> [j \in 0 .. data.Nassets - 1 |-> j],
                         values |-> [j \in 0 .. data.Nassets - 1 |-> int(draws'[j])]]
    /\ bound' = bound \cup {"Nassets", "market_shares"}
    /\ pc' = "index"
    /\ UNCHANGED <<fn, args, err, seriesVars, rets_plus_1, ret_val, data, date,
                   date_series>>

\* market_shares.index = market.columns
CMS_Index ==
    /\ fn = "create_market_shares"
    /\ pc = "index"
    /\ market_shares' = [market_shares EXCEPT !.index = data.columns]
    /\ pc' = "check"
    /\ UNCHANGED <<fn, args, bound, err, seriesVars, rets_plus_1, ret_val, data, date,
                   date_series, draws>>

\* market_shares.min() < 0
CMS_rejects(values) == \E j \in DOMAIN values : values[j] < 0

\* if market_shares.min() < 0: raise Exception("A negative market share ...")
\* return market_shares
CMS_Check ==
    /\ fn = "create_market_shares"
    /\ pc = "check"
    /\ IF CMS_rejects(market_shares.values)
       THEN Raise("Exception")
       ELSE pc' = "done" /\ err' = err
    /\ UNCHANGED <<fn, args, bound, seriesVars, marketVars>>

CMS_Next ==
    \/ CMS_Draw
    \/ CMS_Index
    \/ CMS_Check

-----------------------------------------------------------------------------
(* Initial states *)

NoSeries ==
    /\ data_index = Empty
    /\ a = Empty
    /\ x = Empty
    /\ t = 0
    /\ printed = "nothing"
    /\ rs = "nothing"

NoMarket ==
    /\ rets_plus_1 = Empty
    /\ ret_val = Empty
    /\ date = [parsed |-> FALSE, ord |-> 0]
    /\ date_series = Empty
    /\ draws = Empty
    /\ market_shares = Empty

NoFrame == [Nticks |-> 0, Nassets |-> 0, columns |-> Empty, index |-> Empty]

\* a call of a function that takes no DataFrame
Fresh ==
    /\ bound = {}
    /\ err = "none"
    /\ data = NoFrame
    /\ NoSeries
    /\ NoMarket

\* a call of a function whose first argument is a market panel
FreshOn(frames) ==
    /\ bound = {}
    /\ err = "none"
    /\ data \in frames
    /\ NoSeries
    /\ NoMarket

InitAR ==
    /\ fn = "AutoRegressive"
    /\ pc = "validate"
    /\ args \in AR_Args
    /\ Fresh

SpecAR == InitAR /\ [][AR_Next]_vars

InitRW ==
    /\ \/ fn = "RandomWalk" /\ args \in RW_Args
       \/ fn = "DriftRandomWalk" /\ args \in DRW_Args
    /\ pc = "index"
    /\ Fresh

NextRW ==
    \/ RW_Next
    \/ DRW_Next

SpecRW == InitRW /\ [][NextRW]_vars

InitMA ==
    /\ fn = "MovingAverage"
    /\ pc = "validate"
    /\ args \in MA_Args
    /\ Fresh

SpecMA == InitMA /\ [][MA_Next]_vars

InitARMA ==
    /\ fn = "ARMA"
    /\ pc = "validate"
    /\ args \in ARMA_Args
    /\ Fresh

SpecARMA == InitARMA /\ [][ARMA_Next]_vars

\* the three generators that validate their arguments
InitGen ==
    \/ InitAR
    \/ InitMA
    \/ InitARMA

NextGen ==
    \/ AR_Next
    \/ MA_Next
    \/ ARMA_Next

SpecGen == InitGen /\ [][NextGen]_vars

InitCM ==
    /\ fn = "create_market"
    /\ pc = "draw"
    /\ args \in CM_Args
    /\ Fresh

SpecCM == InitCM /\ [][CM_Next]_vars

InitSMN ==
    /\ fn = "set_market_names"
    /\ pc = "columns"
    /\ args \in SMN_Args
    /\ FreshOn(Frames)

SpecSMN == InitSMN /\ [][SMN_Next]_vars

InitCMS ==
    /\ fn = "create_market_shares"
    /\ pc = "draw"
    /\ args \in CMS_Args
    /\ FreshOn(Frames)

SpecCMS == InitCMS /\ [][CMS_Next]_vars

-----------------------------------------------------------------------------
(* Properties *)

\* the length T of the time axis that the arguments give
AxisLen == len(date_range(args.start_date, args.end_date))

\* the noise with its first P entries erased
Erased(noise, P) == [i \in DOMAIN noise |-> IF i < P THEN 0 ELSE noise[i]]

\* the sequence of length T that the AR(P) difference equation defines:
\* f[t] = start_values[t] below P, cst + noise[t] + sum_p coeffs[p] * f[t-p-1] from P on
ARSolution(T, P, start_values, coeffs, cst, noise) ==
    LET f[i \in 0 .. T - 1] ==
            IF i < P THEN start_values[i]
            ELSE cst + noise[i] + sum([p \in 0 .. P - 1 |-> coeffs[p] * f[i - p - 1]])
    IN  f

\* the generation loop of the series has run to its end
Generated ==
    \/ pc \in {"moment", "assemble", "done"}
    \/ pc = "raised" /\ err = "ZeroDivisionError"

\* C1: once AutoRegressive has run its generation loop, x has length T, its first
\* P entries are start_values, every later entry is
\* cst + a[t] + sum_p coeffs[p] * x[t-p-1], the noise entries a[0..P-1] play no
\* part, and the series a call returns holds exactly this x.
C1_ARRecursion ==
    (fn = "AutoRegressive" /\ Generated) =>
        /\ x = ARSolution(len(data_index), args.order, args.start_values, args.coeffs,
                          args.cst, Erased(a, args.order))
        /\ len(x) = AxisLen
        /\ pc = "done" => rs.values = x /\ rs.index = data_index

C1_Witness ==
    /\ fn = "AutoRegressive"
    /\ pc = "done"
    /\ args.order = 2
    /\ len(x) = 3
    /\ a[0] # 0 /\ a[1] # 0 /\ a[2] # 0
    /\ args.cst # 0

\* C2: an AutoRegressive call with matching lengths and at least P points, whose
\* coefficients sum to 1 (the random walk coeffs=[1.0], cst=0.0, sigma=0.0), is
\* not left by an exception: it returns its series.
C2_UnitRootReturns ==
    (/\ fn = "AutoRegressive"
     /\ len(args.coeffs) = args.order
     /\ len(args.start_values) = args.order
     /\ args.order <= AxisLen
     /\ sum(args.coeffs) = 1) => pc # "raised"

\* a length invariant of the call is violated
LengthMismatch ==
    \/ /\ fn = "AutoRegressive"
       /\ len(args.coeffs) # args.order \/ len(args.start_values) # args.order
    \/ /\ fn = "MovingAverage"
       /\ len(args.coeffs) # args.order
    \/ /\ fn = "ARMA"
       /\ \/ len(args.ARcoeffs) # args.ARorder
          \/ len(args.MAcoeffs) # args.MAorder
          \/ len(args.start_values) # args.ARorder

\* C3: a call of AutoRegressive, MovingAverage or ARMA with a violated length
\* invariant is at its asserts or has left with the AssertionError: it never
\* builds the time axis, draws noise, allocates x or returns a series.
C3_MismatchFailsFirst ==
    LengthMismatch =>
        /\ pc \in {"validate", "raised"}
        /\ pc = "raised" => err = "AssertionError"
        /\ pc = "validate" => ENABLED NextGen
        /\ bound = {}
        /\ data_index = Empty /\ a = Empty /\ x = Empty

C3_Witness ==
    /\ fn = "ARMA"
    /\ pc = "raised"
    /\ err = "AssertionError"
    /\ len(args.ARcoeffs) = args.ARorder
    /\ len(args.start_values) = args.ARorder
    /\ len(args.MAcoeffs) # args.MAorder
    /\ AxisLen > 0

\* the MA(Q) value at index i, from the noise entries a[0..i] alone
MAValue(i) ==
    args.cst + a[i]
        - sum([q \in 0 .. args.order - 1 |->
                  IF i - q - 1 >= 0 THEN args.coeffs[q] * a[i - q - 1] ELSE 0])

ARMAValue(i) ==
    LET P == args.ARorder
        Q == args.MAorder
        own == IF P = 0 THEN 1 ELSE 1 + args.ARcoeffs[0]
    IN  own * (args.cst + a[i])
            + sum([p \in 0 .. P - 1 |-> IF p = 0 THEN 0 ELSE args.ARcoeffs[p] * x[i - p]])
            - sum([q \in 0 .. Q - 1 |->
                      IF i - q - 1 >= 0 THEN args.MAcoeffs[q] * x[i - q - 1] ELSE 0])

WalkDrift == IF fn = "DriftRandomWalk" THEN args.drift ELSE 0

\* C10: RandomWalk and DriftRandomWalk give x[0] = start_value and
\* x[t] = start_value + drift * t + a[1] + ... + a[t] (drift = 0 for RandomWalk),
\* in which a[0] plays no part; with sigma = 0 that is start_value + drift * t,
\* constant at start_value for RandomWalk.
C10_Walks ==
    (fn \in {"RandomWalk", "DriftRandomWalk"} /\ pc \in {"assemble", "done"}) =>
        /\ len(x) = AxisLen
        /\ \A i \in DOMAIN x :
               x[i] = args.start_value + WalkDrift * i
                          + sum([s \in 0 .. i - 1 |-> a[s + 1]])
        /\ args.sigma = 0 =>
               \A i \in DOMAIN x : x[i] = args.start_value + WalkDrift * i
        /\ pc = "done" => rs.values = x

C10_Witness ==
    /\ fn = "DriftRandomWalk"
    /\ pc = "done"
    /\ args.sigma = 0
    /\ len(x) = 3
    /\ x[2] = args.start_value + 2 * args.drift

\* the product of column j of m over rows 1..i
RECURSIVE ColumnProduct(_, _, _)
ColumnProduct(m, j, i) == IF i = 0 THEN 1 ELSE ColumnProduct(m, j, i - 1) * m[i][j]

\* C6: the panel create_market returns has n_steps rows and n_scenarios columns,
\* row 0 is r_ini in every column, and entry (i, j) is r_ini times the product
\* of column j's returns of rows 1..i: no other column's draw enters it.
C6_PanelColumns ==
    (fn = "create_market" /\ pc = "done") =>
        /\ DOMAIN ret_val = 0 .. (args.n_years * args.steps_per_year)
        /\ \A i \in DOMAIN ret_val :
               /\ DOMAIN ret_val[i] = 0 .. args.n_scenarios - 1
               /\ \A j \in DOMAIN ret_val[i] :
                      ret_val[i][j] = args.r_ini * ColumnProduct(rets_plus_1, j, i)
        /\ \A j \in DOMAIN ret_val[0] : ret_val[0][j] = args.r_ini

C6_Witness ==
    /\ fn = "create_market"
    /\ pc = "done"
    /\ args.n_scenarios = 2
    /\ len(ret_val) = 3
    /\ rets_plus_1[1][0] # rets_plus_1[1][1]
    /\ ret_val[2][0] # ret_val[2][1]

\* C4: create_market_shares leaves with the exception whenever one of its draws
\* is negative, so a returned table has one entry per column of the market and
\* every entry is strictly greater than 0.
C4_NegativeDrawFails ==
    (fn = "create_market_shares" /\ pc = "done") =>
        /\ \A j \in DOMAIN draws : draws[j] >= 0
        /\ len(market_shares.values) = data.Nassets
        /\ \A j \in DOMAIN market_shares.values : market_shares.values[j] > 0

\* C5: set_market_names with a date_type other than "start" and "end" raises
\* the unrecognized-option error where it rejects the option: it never goes on
\* to the assignment of the row index.
C5_UnrecognizedDateType ==
    (fn = "set_market_names" /\ args.date_type \notin {"start", "end"}) =>
        /\ pc # "assign"
        /\ pc # "done"
        /\ pc = "raised" => err = "ValueError"

\* C7: after set_market_names has returned, the row index has Nticks entries,
\* strictly increasing at the granularity, and in "start" mode entry k is the
\* period of the anchor date advanced by k days, months or years.
C7_IndexIsTimeAxis ==
    (fn = "set_market_names" /\ pc = "done") =>
        /\ len(data.index) = data.Nticks
        /\ \A k \in DOMAIN data.index :
               k > 0 => data.index[k - 1] < data.index[k]
        /\ args.date_type = "start" =>
               \A k \in DOMAIN data.index :
                   data.index[k] = to_period(date.ord, args.interval_type) + k

=============================================================================
